---------------------------- MODULE Spec2Model ----------------------------
(***************************************************************************)
(* Model of the complaint analyzer (backend/ai_analyzer.py, backend/main.py *)
(* and backend/database.py).                                               *)
(*                                                                         *)
(* Texts are TLA+ strings; the string primitives the code relies on        *)
(* (str.lower, str.strip, the substring test `kw in text`) are computed    *)
(* character by character.  Real numbers (confidences, scores) are held as *)
(* integers counting ten-thousandths, so 0.85 is 8500.                     *)
(***************************************************************************)
EXTENDS Integers, Sequences, FiniteSets, TLC

VARIABLES
    pc,          \* control position of the request being served
    handler,     \* entry point that is running: "analyze" or "create_complaint"
    text,        \* complaint text of the request
    email,       \* customer_email of the request
    gw,          \* the gateway invocation in progress / last returned
    category_result,   \* what classify_complaint returned
    sentiment_result,  \* what analyze_sentiment returned
    outcome,     \* what analyze_complaint returned or raised
    response,    \* what create_complaint answered
    db,          \* rows of the complaints table
    now,         \* the UTC clock
    trace,       \* outcomes of the attempts of a gateway call made on its own
    fn           \* last direct call of a pure function: its arguments and result

vars == <<pc, handler, text, email, gw, category_result, sentiment_result,
          outcome, response, db, now, trace, fn>>

(***************************************************************************)
(* Bounds of the model.                                                    *)
(***************************************************************************)
\* Texts are concatenations of at most MaxFragments fragments.
MaxFragments == 2
\* The clock takes values 0..MaxClock (seconds).
MaxClock == 1
\* Requests carry texts of at most MaxTextLen characters.
MaxTextLen == 21

(***************************************************************************)
(* String primitives.                                                      *)
(***************************************************************************)
UpperLetters == "ABCDEFGHIJKLMNOPQRSTUVWXYZ"
LowerLetters == "abcdefghijklmnopqrstuvwxyz"
Whitespace == {" ", "\t", "\n", "\r", "\f"}

Char(s, i) == SubSeq(s, i, i)

UpperSet == {Char(UpperLetters, i) : i \in 1..Len(UpperLetters)}
LowerOf ==
    [c \in UpperSet |->
        Char(LowerLetters, CHOOSE i \in 1..Len(UpperLetters) : Char(UpperLetters, i) = c)]

\* str.lower() on one character
LowerChar(c) == IF c \in UpperSet THEN LowerOf[c] ELSE c

RECURSIVE lower(_)
lower(s) ==
    IF s = "" THEN "" ELSE LowerChar(Char(s, 1)) \o lower(SubSeq(s, 2, Len(s)))

RECURSIVE lstrip(_)
lstrip(s) ==
    IF s # "" /\ Char(s, 1) \in Whitespace THEN lstrip(SubSeq(s, 2, Len(s))) ELSE s

RECURSIVE rstrip(_)
rstrip(s) ==
    IF s # "" /\ Char(s, Len(s)) \in Whitespace THEN rstrip(SubSeq(s, 1, Len(s) - 1)) ELSE s

strip(s) == rstrip(lstrip(s))

\* Python's `kw in s` on strings: kw occurs as a contiguous substring of s
Contains(kw, s) ==
    \E i \in 1..(Len(s) - Len(kw) + 1) : SubSeq(s, i, i + Len(kw) - 1) = kw

\* sum(1 for keyword in keywords if keyword in s)
CountMatches(keywords, s) ==
    Cardinality({i \in 1..Len(keywords) : Contains(keywords[i], s)})

\* round(x, 3) of a value held in ten-thousandths (no input lies on a tie)
round3(x) == ((x + 5) \div 10) * 10

Min(a, b) == IF a <= b THEN a ELSE b

(***************************************************************************)
(* Fixed tables of ai_analyzer.py.                                         *)
(***************************************************************************)
CATEGORIES == <<"Billing Issues", "Delivery Issues", "Technical Support",
                "Product Quality", "Service Quality", "Refund Requests",
                "Account Issues">>

CategorySet == {CATEGORIES[i] : i \in 1..Len(CATEGORIES)}

URGENT_KEYWORDS == <<"urgent", "asap", "immediately", "emergency", "critical",
                     "refund", "fraud", "lawsuit", "legal", "lawyer", "sue">>

\* category_keywords, in the insertion order of the dict literal
category_keywords == <<
    [category |-> "Billing Issues", keywords |-> <<
        "bill", "billing", "charge", "charged", "payment", "invoice", "paid",
        "overcharged", "double charge", "subscription", "fee", "cost", "price",
        "credit card", "debit", "transaction", "autopay", "refund">>],
    [category |-> "Delivery Issues", keywords |-> <<
        "deliver", "delivery", "shipping", "shipped", "ship", "late", "delay",
        "arrived", "tracking", "package", "order", "dispatch", "courier",
        "transit", "logistics", "warehouse", "not received", "lost package">>],
    [category |-> "Product Quality", keywords |-> <<
        "broken", "defect", "defective", "quality", "damaged", "faulty",
        "poor quality", "cheap", "deteriorated", "malfunction", "doesn't work",
        "stopped working", "issue with product", "product problem", "warranty">>],
    [category |-> "Refund Requests", keywords |-> <<
        "refund", "return", "money back", "reimbursement", "give back",
        "want my money", "cancellation", "cancel", "exchange", "replacement">>],
    [category |-> "Account Issues", keywords |-> <<
        "account", "login", "password", "access", "locked", "suspended",
        "can't log in", "username", "profile", "sign in", "authentication",
        "verify", "verification", "reset", "blocked">>],
    [category |-> "Service Quality", keywords |-> <<
        "support", "service", "representative", "agent", "staff", "employee",
        "rude", "unhelpful", "poor service", "bad service", "customer care",
        "help desk", "no response", "ignored", "waiting", "attitude">>],
    [category |-> "Technical Support", keywords |-> <<
        "bug", "error", "crash", "technical", "app", "website", "system",
        "not working", "glitch", "freeze", "slow", "loading", "connection",
        "software", "update", "feature", "functionality", "interface", "dark mode">>]
>>

negative_words == <<
    "angry", "frustrated", "terrible", "awful", "horrible", "worst",
    "hate", "disappointed", "disgusted", "furious", "annoyed", "upset",
    "useless", "pathetic", "ridiculous", "unacceptable", "poor", "bad">>

positive_words == <<
    "thank", "thanks", "great", "excellent", "happy", "satisfied",
    "love", "appreciate", "wonderful", "amazing", "fantastic", "good",
    "pleased", "glad", "perfect", "awesome", "brilliant">>

neutral_words == <<
    "suggest", "suggestion", "would be nice", "could", "maybe", "perhaps",
    "consider", "feature request", "idea", "feedback">>

(***************************************************************************)
(* Inputs of the model.                                                    *)
(***************************************************************************)
Fragments == {
    "The delivery is late ", "I want a refund ", "URGENT ", "terrible service ",
    "Thanks ", "bad ", "maybe ", "    \t   ", "my account ", "the app ", "ok",
    "overcharged billing invoice payment fee "}

\* all concatenations of at most n fragments
RECURSIVE TextsOf(_)
TextsOf(n) ==
    IF n = 0 THEN {""}
    ELSE LET shorter == TextsOf(n - 1)
         IN  shorter \cup {t \o f : t \in shorter, f \in Fragments}

Texts == TextsOf(MaxFragments)

\* the texts sent through analyze_complaint and create_complaint
RequestTexts == {t \in Texts : Len(t) <= MaxTextLen}

Emails == {"ana@example.org", "raj@example.org"}
RequestEmails == {"ana@example.org"}

Sentiments == {"positive", "negative", "neutral"}
Priorities == {"high", "medium", "low"}
\* Label values that are JSON arrays are held as the text Python prints for
\* them; such a value is a list, which cannot be hashed.
ListLabels == {"['Billing Issues']"}
Hashable(v) == v \notin ListLabels
\* category arguments (str): the seven labels and a label outside them
CategoryNames == CategorySet \cup {"Other"}

(***************************************************************************)
(* classify_complaint_with_keywords                                        *)
(***************************************************************************)
\* the scores dict: one <<category, score>> entry per category whose score
\* is positive, in the iteration order of category_keywords
RECURSIVE ScoresFrom(_, _)
ScoresFrom(i, text_lower) ==
    IF i > Len(category_keywords) THEN <<>>
    ELSE LET score == CountMatches(category_keywords[i].keywords, text_lower)
         IN  (IF score > 0 THEN <<[category |-> category_keywords[i].category,
                                   score |-> score]>>
              ELSE <<>>) \o ScoresFrom(i + 1, text_lower)

\* faulty variant: a later entry with an equal score replaces the best
RECURSIVE MaxByScore_last(_, _, _)
MaxByScore_last(scores, i, best) ==
    IF i > Len(scores) THEN best
    ELSE MaxByScore_last(scores, i + 1,
                         IF scores[i].score >= best.score THEN scores[i] ELSE best)

\* max(scores, key=scores.get): the first entry, in iteration order, that no
\* later entry beats strictly
RECURSIVE MaxByScore(_, _, _)
MaxByScore(scores, i, best) ==
    IF i > Len(scores) THEN best
    ELSE MaxByScore(scores, i + 1,
                    IF scores[i].score > best.score THEN scores[i] ELSE best)

classify_complaint_with_keywords(t) ==
    LET text_lower == lower(t)
        scores == ScoresFrom(1, text_lower)
    IN  IF scores # <<>>
        THEN LET best == MaxByScore(scores, 2, scores[1])
                 confidence == Min(8500 + best.score * 200, 9900)
             IN  [category |-> best.category, confidence |-> round3(confidence)]
        ELSE [category |-> "Service Quality", confidence |-> 7000]

(***************************************************************************)
(* analyze_sentiment_with_keywords                                         *)
(***************************************************************************)
\* faulty variant: the neutral rule is tried last
analyze_sentiment_with_keywords_neutral_last(t) ==
    LET text_lower == lower(t)
        negative_count == CountMatches(negative_words, text_lower)
        positive_count == CountMatches(positive_words, text_lower)
        neutral_count == CountMatches(neutral_words, text_lower)
    IN  IF negative_count > positive_count
        THEN [sentiment |-> "negative", confidence |-> 8000]
        ELSE IF positive_count > negative_count
        THEN [sentiment |-> "positive", confidence |-> 8000]
        ELSE IF neutral_count > 0 /\ negative_count = 0
        THEN [sentiment |-> "neutral", confidence |-> 8500]
        ELSE [sentiment |-> "neutral", confidence |-> 7500]

analyze_sentiment_with_keywords(t) ==
    LET text_lower == lower(t)
        negative_count == CountMatches(negative_words, text_lower)
        positive_count == CountMatches(positive_words, text_lower)
        neutral_count == CountMatches(neutral_words, text_lower)
    IN  IF neutral_count > 0 /\ negative_count = 0
        THEN [sentiment |-> "neutral", confidence |-> 8500]
        ELSE IF negative_count > positive_count
        THEN [sentiment |-> "negative", confidence |-> 8000]
        ELSE IF positive_count > negative_count
        THEN [sentiment |-> "positive", confidence |-> 8000]
        ELSE [sentiment |-> "neutral", confidence |-> 7500]

(***************************************************************************)
(* The functions of the text, tabulated once over the texts of the model.  *)
(***************************************************************************)
keyword_category == [t \in Texts |-> classify_complaint_with_keywords(t)]
keyword_sentiment == [t \in Texts |-> analyze_sentiment_with_keywords(t)]

(***************************************************************************)
(* Triage: calculate_priority, calculate_response_due_time, suggest_action *)
(***************************************************************************)
\* faulty variant: only billing raises the priority
high_priority_categories_billing_only == {"Billing Issues"}

high_priority_categories == {"Refund Requests", "Billing Issues", "Account Issues"}

\* any(keyword in text_lower for keyword in URGENT_KEYWORDS)
has_urgent(t) ==
    LET text_lower == lower(t)
    IN  \E i \in 1..Len(URGENT_KEYWORDS) : Contains(URGENT_KEYWORDS[i], text_lower)

\* faulty variant: `or` in place of `and` in the first rule
calculate_priority_or(sentiment, t, category) ==
    LET urgent == has_urgent(t)
    IN  IF sentiment = "negative" \/ urgent
        THEN "high"
        ELSE IF category \in high_priority_categories
        THEN "medium"
        ELSE "low"

urgent_text == [t \in Texts |-> has_urgent(t)]

calculate_priority(sentiment, t, category) ==
    LET urgent == urgent_text[t]
    IN  IF sentiment = "negative" /\ urgent
        THEN "high"
        ELSE IF sentiment = "negative" \/ urgent
                \/ category \in high_priority_categories
        THEN "medium"
        ELSE "low"

\* faulty variant: low falls to the default of 24 hours
hours_map_low_default(priority) ==
    CASE priority = "high" -> 2
      [] OTHER -> 24

\* hours_map.get(priority, 24)
hours_map(priority) ==
    CASE priority = "high" -> 2
      [] priority = "medium" -> 24
      [] priority = "low" -> 48
      [] OTHER -> 24

\* datetime.utcnow() + timedelta(hours=hours), the clock counting seconds
calculate_response_due_time(priority, utcnow) ==
    utcnow + hours_map(priority) * 3600

\* the actions dict: each entry is an f-string with one {customer_email} slot
\* (a character outside ASCII is written <U+code point>)
actions == <<
    [key |-> <<"Billing Issues", "negative", "high">>,
     pre |-> "<U+26A0><U+FE0F> URGENT ACTION REQUIRED:\n1. Call ",
     post |-> " within 2 hours\n2. Review billing records immediately\n3. Prepare refund/credit authorization\n4. Escalate to Billing Manager\n5. Document resolution for legal compliance"],
    [key |-> <<"Billing Issues", "negative", "medium">>,
     pre |-> "<U+1F4B3> PRIORITY ACTION:\n1. Email ",
     post |-> " within 6 hours\n2. Verify payment transaction details\n3. Assign to Senior Billing Specialist\n4. Provide itemized statement\n5. Offer payment plan if applicable"],
    [key |-> <<"Billing Issues", "neutral", "low">>,
     pre |-> "<U+1F4CB> STANDARD PROCEDURE:\n1. Email ",
     post |-> " within 48 hours\n2. Send billing clarification document\n3. Assign to Billing Support Team\n4. Schedule follow-up call if needed"],
    [key |-> <<"Billing Issues", "positive", "low">>,
     pre |-> "<U+2705> ACKNOWLEDGMENT:\n1. Thank ",
     post |-> " for patience\n2. Confirm billing issue resolved\n3. Offer loyalty discount (10% next purchase)\n4. Update customer satisfaction record"],
    [key |-> <<"Delivery Issues", "negative", "high">>,
     pre |-> "<U+1F69A> IMMEDIATE ESCALATION:\n1. Contact ",
     post |-> " within 1 hour\n2. Track shipment with courier urgently\n3. Offer expedited replacement shipping\n4. Escalate to Logistics Manager\n5. Provide tracking updates every 4 hours\n6. Consider partial refund for inconvenience"],
    [key |-> <<"Delivery Issues", "negative", "medium">>,
     pre |-> "<U+1F4E6> PRIORITY TRACKING:\n1. Email ",
     post |-> " within 6 hours\n2. Request tracking update from courier\n3. Assign to Delivery Resolution Team\n4. Provide estimated delivery timeline\n5. Offer shipping refund if delayed >3 days"],
    [key |-> <<"Delivery Issues", "neutral", "low">>,
     pre |-> "<U+1F4CB> STANDARD FOLLOW-UP:\n1. Email ",
     post |-> " within 24 hours\n2. Share current tracking status\n3. Set delivery expectation window\n4. Provide customer service contact"],
    [key |-> <<"Technical Support", "negative", "high">>,
     pre |-> "<U+1F527> CRITICAL TECHNICAL ISSUE:\n1. Assign senior engineer immediately\n2. Call ",
     post |-> " within 2 hours\n3. Provide temporary workaround solution\n4. Escalate to Tech Lead\n5. Schedule screen-sharing session\n6. Commit to resolution timeline"],
    [key |-> <<"Technical Support", "negative", "medium">>,
     pre |-> "<U+1F4BB> TECHNICAL ASSISTANCE:\n1. Email ",
     post |-> " within 12 hours\n2. Assign to Technical Support Specialist\n3. Request system logs/screenshots\n4. Provide troubleshooting guide\n5. Schedule callback within 24 hours"],
    [key |-> <<"Technical Support", "neutral", "low">>,
     pre |-> "<U+1F4A1> FEATURE FEEDBACK:\n1. Thank ",
     post |-> " for suggestion\n2. Forward to Product Development Team\n3. Add to feature request backlog\n4. Provide timeline for consideration\n5. Offer to join beta testing program"],
    [key |-> <<"Product Quality", "negative", "high">>,
     pre |-> "<U+1F4E6> QUALITY ISSUE ESCALATION:\n1. Contact ",
     post |-> " immediately\n2. Arrange free return shipping label\n3. Offer replacement + 20% discount\n4. Escalate to Quality Assurance Manager\n5. Investigate batch/lot number\n6. Document for supplier feedback"],
    [key |-> <<"Product Quality", "negative", "medium">>,
     pre |-> "<U+1F50D> QUALITY REVIEW:\n1. Email ",
     post |-> " within 8 hours\n2. Request product photos/description\n3. Offer exchange or refund options\n4. Assign to Quality Control Team\n5. Provide return instructions"],
    [key |-> <<"Refund Requests", "negative", "high">>,
     pre |-> "<U+1F4B0> URGENT REFUND PROCESSING:\n1. Call ",
     post |-> " within 1 hour\n2. Verify refund eligibility immediately\n3. Process refund within 24 hours\n4. Escalate to Finance Manager if >$500\n5. Send refund confirmation email\n6. Offer future purchase credit (15% bonus)"],
    [key |-> <<"Refund Requests", "negative", "medium">>,
     pre |-> "<U+1F4B5> REFUND REVIEW:\n1. Email ",
     post |-> " within 6 hours\n2. Review return policy compliance\n3. Request order details and reason\n4. Process standard refund (3-5 business days)\n5. Provide refund tracking information"],
    [key |-> <<"Refund Requests", "positive", "low">>,
     pre |-> "<U+2705> REFUND ACKNOWLEDGMENT:\n1. Confirm refund received by ",
     post |-> "\n2. Request feedback on experience\n3. Offer 10% discount on future purchase\n4. Update customer satisfaction metrics"],
    [key |-> <<"Service Quality", "negative", "high">>,
     pre |-> "<U+1F464> SERVICE RECOVERY:\n1. Manager to call ",
     post |-> " within 2 hours\n2. Review service interaction logs\n3. Offer sincere apology + compensation\n4. Retrain involved staff member\n5. Assign dedicated account manager\n6. Follow up within 48 hours"],
    [key |-> <<"Service Quality", "negative", "medium">>,
     pre |-> "<U+1F4DE> SERVICE IMPROVEMENT:\n1. Email ",
     post |-> " within 8 hours\n2. Assign to Customer Service Supervisor\n3. Review service standards with team\n4. Offer direct contact for future issues\n5. Request detailed feedback"],
    [key |-> <<"Service Quality", "neutral", "low">>,
     pre |-> "<U+1F4CB> FEEDBACK COLLECTION:\n1. Thank ",
     post |-> " for feedback\n2. Forward to Service Training Department\n3. Use for staff coaching session\n4. Send follow-up satisfaction survey"],
    [key |-> <<"Account Issues", "negative", "high">>,
     pre |-> "<U+1F510> URGENT ACCOUNT ACCESS:\n1. Contact ",
     post |-> " immediately\n2. Verify identity through security questions\n3. Reset credentials within 1 hour\n4. Escalate to IT Security Team\n5. Enable two-factor authentication\n6. Monitor account for suspicious activity"],
    [key |-> <<"Account Issues", "negative", "medium">>,
     pre |-> "<U+1F511> ACCOUNT ASSISTANCE:\n1. Email ",
     post |-> " within 4 hours\n2. Send password reset link\n3. Provide account recovery guide\n4. Assign to Account Support Specialist\n5. Schedule verification callback"]
>>

\* faulty variant: every priority gets the default (medium) plan
urgency_map_by_default(priority) ==
    [timeframe |-> "12 hours", method |-> "Email",
     escalation |-> "Assign to senior specialist",
     compensation |-> "Review compensation options"]

\* urgency_map.get(priority, urgency_map["medium"])
urgency_map(priority) ==
    CASE priority = "high" ->
            [timeframe |-> "2 hours", method |-> "Call",
             escalation |-> "Escalate to department manager",
             compensation |-> "Offer immediate compensation/solution"]
      [] priority = "low" ->
            [timeframe |-> "48 hours", method |-> "Email",
             escalation |-> "Route to standard queue",
             compensation |-> "Acknowledge and thank customer"]
      [] OTHER ->
            [timeframe |-> "12 hours", method |-> "Email",
             escalation |-> "Assign to senior specialist",
             compensation |-> "Review compensation options"]

\* Returns [raised |-> "TypeError"] when the key (category, sentiment,
\* priority) cannot be hashed, else [raised |-> "", value |-> the text].
suggest_action(category, sentiment, priority, customer_email) ==
    LET key == <<category, sentiment, priority>>
    IN  IF ~Hashable(category)
        THEN [raised |-> "TypeError", value |-> ""]
        ELSE IF \E i \in 1..Len(actions) : actions[i].key = key
        THEN LET i == CHOOSE j \in 1..Len(actions) : actions[j].key = key
             IN  [raised |-> "",
                  value |-> actions[i].pre \o customer_email \o actions[i].post]
        ELSE LET urgency == urgency_map(priority)
             IN  [raised |-> "",
                  value |-> " ACTION PLAN:\n1. " \o urgency.method \o " "
                            \o customer_email \o " within " \o urgency.timeframe
                            \o "\n2. " \o urgency.escalation
                            \o "\n3. Assign to " \o category \o " department"
                            \o "\n4. " \o urgency.compensation
                            \o "\n5. Document resolution and follow up"]

(***************************************************************************)
(* The remote service.  A body is what response.json() yields for a 200:   *)
(*   zero_shot    a dict with "labels" and "scores"                        *)
(*   labels_only  a dict with "labels" and no "scores"                     *)
(*   error        a dict {"error": ...}                                    *)
(*   empty        the dict {}                                              *)
(*   predictions  a list holding one list of {"label", "score"} dicts      *)
(*   empty_list   the list []                                              *)
(*   not_json     a body that is not JSON: response.json() raises          *)
(***************************************************************************)
None == [shape |-> "None"]

Bodies == {
    [shape |-> "zero_shot", labels |-> <<"Technical Support", "Billing Issues">>,
                            scores |-> <<9000, 500>>],
    [shape |-> "zero_shot", labels |-> <<"Other">>, scores |-> <<9000>>],
    [shape |-> "zero_shot", labels |-> <<"['Billing Issues']">>, scores |-> <<9000>>],
    [shape |-> "zero_shot", labels |-> <<"Refund Requests", "Billing Issues">>,
                            scores |-> <<5000, 3000>>],
    [shape |-> "zero_shot", labels |-> <<"Account Issues">>, scores |-> <<5004>>],
    [shape |-> "zero_shot", labels |-> <<>>, scores |-> <<9000>>],
    [shape |-> "zero_shot", labels |-> <<"Billing Issues">>, scores |-> <<>>],
    [shape |-> "labels_only", labels |-> <<"Billing Issues">>],
    [shape |-> "error"],
    [shape |-> "empty"],
    [shape |-> "predictions", predictions |-> <<
        [label |-> "negative", score |-> 500], [label |-> "POSITIVE", score |-> 9000]>>],
    [shape |-> "predictions", predictions |-> <<
        [label |-> "negative", score |-> 9000], [label |-> "positive", score |-> 1000]>>],
    [shape |-> "predictions", predictions |-> <<[label |-> "neutral", score |-> 9000]>>],
    [shape |-> "predictions", predictions |-> <<[label |-> "LABEL_2", score |-> 9000]>>],
    [shape |-> "predictions", predictions |-> <<
        [label |-> "negative", score |-> 6000], [label |-> "positive", score |-> 4000]>>],
    [shape |-> "predictions", predictions |-> <<
        [label |-> "['Billing Issues']", score |-> 9000]>>],
    [shape |-> "predictions", predictions |-> <<>>],
    [shape |-> "empty_list"],
    [shape |-> "not_json"]
}

\* What one requests.post can do: answer with a status, or raise.
AttemptOutcomes ==
    {[kind |-> "status", status |-> 200, body |-> b] : b \in Bodies}
    \cup {[kind |-> "status", status |-> s, body |-> None] : s \in {503, 500}}
    \cup {[kind |-> k, status |-> 0, body |-> None] :
            k \in {"Timeout", "ConnectionError", "Exception"}}

(***************************************************************************)
(* call_huggingface_api, one loop iteration at a time.                     *)
(***************************************************************************)
max_retries == 3

RECURSIVE Pow2(_)
Pow2(n) == IF n = 0 THEN 1 ELSE 2 * Pow2(n - 1)

GatewayIdle ==
    [call |-> "none", status |-> "idle", attempt |-> 0, requests |-> 0,
     slept |-> <<>>, value |-> None, error |-> ""]

GatewayCall(call) ==
    [GatewayIdle EXCEPT !.call = call,
        !.status = IF 0 < max_retries THEN "running" ELSE "returned"]

\* faulty variant: the loop runs one iteration too many
SleepAndContinue_one_more(g) ==
    [g EXCEPT !.slept = Append(@, Pow2(g.attempt)),
              !.attempt = g.attempt + 1,
              !.status = IF g.attempt + 1 <= max_retries THEN "running" ELSE "returned",
              !.value = None]

\* time.sleep(2 ** attempt); continue -- the for loop ends after the last
\* attempt and falls through to `return None`
SleepAndContinue(g) ==
    [g EXCEPT !.slept = Append(@, Pow2(g.attempt)),
              !.attempt = g.attempt + 1,
              !.status = IF g.attempt + 1 < max_retries THEN "running" ELSE "returned",
              !.value = None]

\* faulty variant: the loop goes on after an answer
GatewayReturn_and_continue(g, v) ==
    [g EXCEPT !.attempt = g.attempt + 1,
              !.status = IF g.attempt + 1 < max_retries THEN "running" ELSE "returned",
              !.value = v]

GatewayReturn(g, v) == [g EXCEPT !.status = "returned", !.value = v]

GatewayRaise(g, kind) == [g EXCEPT !.status = "raised", !.error = kind]

\* faulty variant: a timeout raises at once, on any attempt
GatewayAttempt_timeout_raises(g0, o) ==
    LET g == [g0 EXCEPT !.requests = @ + 1]
    IN  CASE o.kind = "status" /\ o.status = 200 ->
                IF o.body.shape = "not_json"
                THEN GatewayRaise(g, "GenericServiceKind")
                ELSE GatewayReturn(g, o.body)
          [] o.kind = "status" /\ o.status = 503 -> SleepAndContinue(g)
          [] o.kind = "status" /\ o.status \notin {200, 503} -> GatewayReturn(g, None)
          [] o.kind = "Timeout" -> GatewayRaise(g, "TimeoutKind")
          [] o.kind = "ConnectionError" -> GatewayRaise(g, "ConnectivityKind")
          [] OTHER -> GatewayRaise(g, "GenericServiceKind")

\* the body of the for loop for the outcome o of requests.post
GatewayAttempt(g0, o) ==
    LET g == [g0 EXCEPT !.requests = @ + 1]
    IN  CASE o.kind = "status" /\ o.status = 200 ->
                IF o.body.shape = "not_json"
                THEN GatewayRaise(g, "GenericServiceKind")
                ELSE GatewayReturn(g, o.body)
          [] o.kind = "status" /\ o.status = 503 -> SleepAndContinue(g)
          [] o.kind = "status" /\ o.status \notin {200, 503} -> GatewayReturn(g, None)
          [] o.kind = "Timeout" ->
                IF g.attempt < max_retries - 1
                THEN SleepAndContinue(g)
                ELSE GatewayRaise(g, "TimeoutKind")
          [] o.kind = "ConnectionError" -> GatewayRaise(g, "ConnectivityKind")
          [] OTHER -> GatewayRaise(g, "GenericServiceKind")

(***************************************************************************)
(* classify_complaint and analyze_sentiment: the code after the gateway    *)
(* call.  g is the finished gateway call.  The result carries `raised`:    *)
(* "" for a normal return, else the kind of the exception that escapes.    *)
(***************************************************************************)
\* bool(result): None, {} and [] are false
Truthy(v) == v.shape \notin {"None", "empty", "empty_list"}

\* faulty variant: a score equal to the threshold is accepted
ClassificationAccepted_at_threshold(v) ==
    /\ Truthy(v)
    /\ v.shape = "zero_shot"
    /\ Len(v.scores) > 0
    /\ v.scores[1] >= 5000
    /\ Len(v.labels) > 0

\* result and "labels" in result and result["scores"][0] > 0.5, followed by
\* result["labels"][0]: TRUE when all of it evaluates without an exception
\* and the condition holds
ClassificationAccepted(v) ==
    /\ Truthy(v)
    /\ v.shape = "zero_shot"
    /\ Len(v.scores) > 0
    /\ v.scores[1] > 5000
    /\ Len(v.labels) > 0

\* faulty variant: the handler catches less than Exception, so an error of
\* the gateway escapes
classify_complaint_reraising(t, g) ==
    IF g.status = "raised"
    THEN [raised |-> g.error, category |-> "", confidence |-> 0]
    ELSE IF g.status = "returned" /\ ClassificationAccepted(g.value)
    THEN [raised |-> "", category |-> g.value.labels[1],
          confidence |-> round3(g.value.scores[1])]
    ELSE [raised |-> ""] @@ keyword_category[t]

classify_complaint(t, g) ==
    IF g.status = "returned" /\ ClassificationAccepted(g.value)
    THEN [raised |-> "", category |-> g.value.labels[1],
          confidence |-> round3(g.value.scores[1])]
    ELSE \* low score, no result, a malformed result (KeyError, IndexError)
         \* or an exception of the gateway: `except Exception`
         [raised |-> ""] @@ keyword_category[t]

\* max(predictions, key=lambda x: x['score']): the first maximal element
RECURSIVE MaxByPrediction(_, _, _)
MaxByPrediction(predictions, i, best) ==
    IF i > Len(predictions) THEN best
    ELSE MaxByPrediction(predictions, i + 1,
            IF predictions[i].score > best.score THEN predictions[i] ELSE best)

\* sentiment_map.get(label.lower(), "neutral")
sentiment_map(label) ==
    IF lower(label) \in {"positive", "negative", "neutral"} THEN lower(label)
    ELSE "neutral"

SentimentAccepted(v) ==
    /\ Truthy(v)
    /\ v.shape = "predictions"
    /\ Len(v.predictions) > 0
    /\ LET top_prediction == MaxByPrediction(v.predictions, 2, v.predictions[1])
       IN  /\ top_prediction.score > 6000
           /\ top_prediction.label \notin ListLabels

analyze_sentiment(t, g) ==
    IF g.status = "returned" /\ SentimentAccepted(g.value)
    THEN LET top_prediction == MaxByPrediction(g.value.predictions, 2,
                                               g.value.predictions[1])
         IN  [raised |-> "", sentiment |-> sentiment_map(top_prediction.label),
              confidence |-> round3(top_prediction.score)]
    ELSE [raised |-> ""] @@ keyword_sentiment[t]

(***************************************************************************)
(* analyze_complaint                                                       *)
(***************************************************************************)
NoOutcome == [kind |-> "none"]

Raised(kind) == [kind |-> kind]

\* faulty variant: the second check (raw length) is missing
ValidationFails_trimmed_only(t) == t = "" \/ Len(strip(t)) < 10

\* the two checks before the try block
ValidationFails(t) == t = "" \/ Len(strip(t)) < 10 \/ Len(t) < 15

\* the except clauses of analyze_complaint
AnalyzeExcept(raised) ==
    CASE raised = "TimeoutKind" -> Raised("TimeoutKind")
      [] raised = "ConnectivityKind" -> Raised("ConnectivityKind")
      [] OTHER -> Raised("GenericAnalysisKind")

\* lines 460-476: the triage of the two results and the returned dict
AnalyzeAssemble(t, customer_email, category_res, sentiment_res, utcnow) ==
    LET category == category_res.category
        sentiment == sentiment_res.sentiment
        priority == calculate_priority(sentiment, t, category)
        response_due == calculate_response_due_time(priority, utcnow)
        suggested_action == suggest_action(category, sentiment, priority, customer_email)
    IN  IF suggested_action.raised # ""
        THEN AnalyzeExcept(suggested_action.raised)
        ELSE [kind |-> "result",
              category |-> category,
              sentiment |-> sentiment,
              priority |-> priority,
              suggested_action |-> suggested_action.value,
              response_due_at |-> response_due,
              confidence |-> [category |-> category_res.confidence,
                              sentiment |-> sentiment_res.confidence]]

(***************************************************************************)
(* create_complaint (main.py) and the complaints table (database.py)       *)
(***************************************************************************)
\* ComplaintInput: text = Field(..., min_length=15, max_length=2000)
ComplaintInputValid(t) == Len(t) >= 15 /\ Len(t) <= 2000

NoResponse == [status |-> 0]

\* the except clauses of create_complaint
CreateComplaintExcept(kind) ==
    CASE kind = "ValidationKind" -> [status |-> 400]
      [] kind = "TimeoutKind" -> [status |-> 504]
      [] kind = "ConnectivityKind" -> [status |-> 503]
      [] OTHER -> [status |-> 500]

\* the id given to a new row is one more than the largest id stored (an
\* Integer primary key; the first row gets 1)
LastId(rows) ==
    IF rows = <<>> THEN 0
    ELSE CHOOSE n \in {rows[i].id : i \in 1..Len(rows)} :
            \A i \in 1..Len(rows) : rows[i].id <= n

\* Complaint(...), db.add, db.commit: the row that is inserted
NewComplaint(rows, t, customer_email, analysis, utcnow) ==
    [id |-> LastId(rows) + 1,
     customer_email |-> customer_email,
     text |-> t,
     category |-> analysis.category,
     sentiment |-> analysis.sentiment,
     priority |-> analysis.priority,
     status |-> "open",
     category_confidence |-> analysis.confidence.category,
     sentiment_confidence |-> analysis.confidence.sentiment,
     created_at |-> utcnow,
     response_due_at |-> analysis.response_due_at,
     resolved_at |-> -1]

(***************************************************************************)
(* The service handling one request.                                       *)
(***************************************************************************)
NoResult == [raised |-> "", none |-> TRUE]
NoCall == [name |-> "none"]

Init ==
    /\ pc = "idle"
    /\ handler = "none"
    /\ text = ""
    /\ email = ""
    /\ gw = GatewayIdle
    /\ category_result = NoResult
    /\ sentiment_result = NoResult
    /\ outcome = NoOutcome
    /\ response = NoResponse
    /\ db = <<>>
    /\ now = 0
    /\ trace = <<>>
    /\ fn = NoCall

\* analyze_complaint up to the first gateway call
AnalyzeEnter(t) ==
    IF ValidationFails(t)
    THEN /\ outcome' = Raised("ValidationKind")
         /\ pc' = "analyzed"
         /\ gw' = gw
    ELSE /\ outcome' = outcome
         /\ pc' = "classify"
         /\ gw' = GatewayCall("classification")

\* a direct call analyze_complaint(t, e)
Analyze ==
    /\ pc = "idle"
    /\ \E t \in RequestTexts, e \in RequestEmails :
        /\ handler' = "analyze"
        /\ text' = t
        /\ email' = e
        /\ AnalyzeEnter(t)
        /\ UNCHANGED <<category_result, sentiment_result, response, db, now, trace, fn>>

\* POST /api/complaints with a body that ComplaintInput rejects
CreateComplaintRejected ==
    /\ pc = "idle"
    /\ \E t \in RequestTexts, e \in RequestEmails :
        /\ ~ComplaintInputValid(t)
        /\ handler' = "create_complaint"
        /\ text' = t
        /\ email' = e
        /\ response' = [status |-> 422]
        /\ pc' = "responded"
        /\ UNCHANGED <<gw, category_result, sentiment_result, outcome, db, now, trace, fn>>

\* POST /api/complaints: create_complaint calls analyze_complaint
CreateComplaint ==
    /\ pc = "idle"
    /\ \E t \in RequestTexts, e \in RequestEmails :
        /\ ComplaintInputValid(t)
        /\ handler' = "create_complaint"
        /\ text' = t
        /\ email' = e
        /\ AnalyzeEnter(t)
        /\ UNCHANGED <<category_result, sentiment_result, response, db, now, trace, fn>>

\* one iteration of the gateway's retry loop
Request(o) ==
    /\ pc \in {"classify", "sentiment"}
    /\ gw.status = "running"
    /\ gw' = GatewayAttempt(gw, o)
    /\ UNCHANGED <<pc, handler, text, email, category_result, sentiment_result,
                   outcome, response, db, now, trace, fn>>

\* faulty variant: a classification call that raised ends the analysis, the
\* sentiment call is never made
ClassifyReturn_blocking ==
    /\ pc = "classify"
    /\ gw.status \in {"returned", "raised"}
    /\ LET r == classify_complaint(text, gw)
       IN  /\ category_result' = r
           /\ IF gw.status = "raised"
              THEN /\ outcome' = AnalyzeExcept(gw.error)
                   /\ pc' = "analyzed"
                   /\ gw' = GatewayIdle
              ELSE /\ outcome' = outcome
                   /\ pc' = "sentiment"
                   /\ gw' = GatewayCall("sentiment")
    /\ UNCHANGED <<handler, text, email, sentiment_result, response, db, now, trace, fn>>

\* classify_complaint returns; analyze_complaint calls analyze_sentiment
ClassifyReturn ==
    /\ pc = "classify"
    /\ gw.status \in {"returned", "raised"}
    /\ LET r == classify_complaint(text, gw)
       IN  /\ category_result' = r
           /\ IF r.raised # ""
              THEN /\ outcome' = AnalyzeExcept(r.raised)
                   /\ pc' = "analyzed"
                   /\ gw' = GatewayIdle
              ELSE /\ outcome' = outcome
                   /\ pc' = "sentiment"
                   /\ gw' = GatewayCall("sentiment")
    /\ UNCHANGED <<handler, text, email, sentiment_result, response, db, now, trace, fn>>

\* analyze_sentiment returns; analyze_complaint triages and returns.
\* utcnow is what datetime.utcnow() reads in calculate_response_due_time.
SentimentReturn(utcnow) ==
    /\ pc = "sentiment"
    /\ gw.status \in {"returned", "raised"}
    /\ utcnow >= now
    /\ LET r == analyze_sentiment(text, gw)
       IN  /\ sentiment_result' = r
           /\ IF r.raised # ""
              THEN /\ outcome' = AnalyzeExcept(r.raised)
                   /\ now' = now
              ELSE /\ outcome' = AnalyzeAssemble(text, email, category_result, r, utcnow)
                   /\ now' = utcnow
    /\ pc' = "analyzed"
    /\ gw' = GatewayIdle
    /\ UNCHANGED <<handler, text, email, category_result, response, db, trace, fn>>

\* the rest of create_complaint: insert the row and answer, or map the error
CreateComplaintRespond ==
    /\ pc = "analyzed"
    /\ handler = "create_complaint"
    /\ IF outcome.kind = "result"
       THEN /\ db' = Append(db, NewComplaint(db, text, email, outcome, now))
            /\ response' = [status |-> 200]
       ELSE /\ db' = db
            /\ response' = CreateComplaintExcept(outcome.kind)
    /\ pc' = "responded"
    /\ UNCHANGED <<handler, text, email, gw, category_result, sentiment_result,
                   outcome, now, trace, fn>>

Next ==
    \/ Analyze
    \/ CreateComplaintRejected
    \/ CreateComplaint
    \/ \E o \in AttemptOutcomes : Request(o)
    \/ ClassifyReturn
    \/ \E utcnow \in 0..MaxClock : SentimentReturn(utcnow)
    \/ CreateComplaintRespond

Spec == Init /\ [][Next]_vars

(***************************************************************************)
(* The functions called on their own, one call at a time.                  *)
(***************************************************************************)
FnUnchanged ==
    UNCHANGED <<handler, text, email, category_result, sentiment_result,
                outcome, response, db, now>>

CallClassifyKeywords ==
    /\ pc = "idle"
    /\ \E t \in Texts :
        /\ pc' = "called"
        /\ fn' = [name |-> "classify_complaint_with_keywords", text |-> t,
                  result |-> keyword_category[t]]
        /\ UNCHANGED <<gw, trace>>
        /\ FnUnchanged

CallSentimentKeywords ==
    /\ pc = "idle"
    /\ \E t \in Texts :
        /\ pc' = "called"
        /\ fn' = [name |-> "analyze_sentiment_with_keywords", text |-> t,
                  result |-> keyword_sentiment[t]]
        /\ UNCHANGED <<gw, trace>>
        /\ FnUnchanged

CallPriority ==
    /\ pc = "idle"
    /\ \E sentiment \in Sentiments, t \in Texts, category \in CategoryNames :
        /\ pc' = "called"
        /\ fn' = [name |-> "calculate_priority", sentiment |-> sentiment, text |-> t,
                  category |-> category,
                  result |-> calculate_priority(sentiment, t, category)]
        /\ UNCHANGED <<gw, trace>>
        /\ FnUnchanged

CallSuggestAction ==
    /\ pc = "idle"
    /\ \E category \in CategoryNames, sentiment \in Sentiments, priority \in Priorities,
          customer_email \in Emails :
        /\ pc' = "called"
        /\ fn' = [name |-> "suggest_action", category |-> category,
                  sentiment |-> sentiment, priority |-> priority,
                  customer_email |-> customer_email,
                  result |-> suggest_action(category, sentiment, priority, customer_email)]
        /\ UNCHANGED <<gw, trace>>
        /\ FnUnchanged

\* call_huggingface_api(model, payload) called on its own
CallGateway(call) ==
    /\ pc = "idle"
    /\ pc' = "gateway"
    /\ gw' = GatewayCall(call)
    /\ trace' = <<>>
    /\ UNCHANGED fn
    /\ FnUnchanged

GatewayRequest(o) ==
    /\ pc = "gateway"
    /\ gw.status = "running"
    /\ gw' = GatewayAttempt(gw, o)
    /\ trace' = Append(trace, o)
    /\ UNCHANGED <<pc, fn>>
    /\ FnUnchanged

\* the call is over: ready for the next one
FnReturn ==
    /\ \/ pc = "called"
       \/ pc = "gateway" /\ gw.status \in {"returned", "raised"}
    /\ pc' = "idle"
    /\ fn' = NoCall
    /\ gw' = GatewayIdle
    /\ trace' = <<>>
    /\ FnUnchanged

NextFn ==
    \/ CallClassifyKeywords
    \/ CallSentimentKeywords
    \/ CallPriority
    \/ CallSuggestAction
    \/ \E call \in {"classification", "sentiment"} : CallGateway(call)
    \/ \E o \in AttemptOutcomes : GatewayRequest(o)
    \/ FnReturn

SpecFn == Init /\ [][NextFn]_vars

(***************************************************************************)
(* The complaint store: create_complaint, update_status and                *)
(* delete_complaint, each handled to completion in one step.               *)
(***************************************************************************)
\* rows kept at a time, and ids handed out, in the store specification
MaxRows == 2
MaxComplaintId == 3

\* the `status` query parameter of update_status: any string
StatusInputs == {"open", "in_progress", "resolved", "closed"}

StoreTexts == {"I want a refund ", "The delivery is late ", "ok"}

\* what the remote service answers to the single request of each call
StoreOutcomes ==
    {[kind |-> "status", status |-> 500, body |-> None],
     [kind |-> "status", status |-> 200,
      body |-> [shape |-> "zero_shot", labels |-> <<"['Billing Issues']">>,
                scores |-> <<9000>>]]}

\* db.query(Complaint).filter(Complaint.id == complaint_id).first()
HasComplaint(rows, complaint_id) ==
    \E i \in 1..Len(rows) : rows[i].id = complaint_id

\* create_complaint from the request to the response: `rows` and `response`
\* after it
create_complaint(rows, t, customer_email, o_c, o_s, utcnow) ==
    IF ~ComplaintInputValid(t)
    THEN [rows |-> rows, response |-> [status |-> 422]]
    ELSE IF ValidationFails(t)
    THEN [rows |-> rows, response |-> CreateComplaintExcept("ValidationKind")]
    ELSE LET c == classify_complaint(t, GatewayAttempt(GatewayCall("classification"), o_c))
             s == analyze_sentiment(t, GatewayAttempt(GatewayCall("sentiment"), o_s))
             analysis == AnalyzeAssemble(t, customer_email, c, s, utcnow)
         IN  IF analysis.kind = "result"
             THEN [rows |-> Append(rows, NewComplaint(rows, t, customer_email,
                                                      analysis, utcnow)),
                   response |-> [status |-> 200]]
             ELSE [rows |-> rows, response |-> CreateComplaintExcept(analysis.kind)]

update_status(rows, complaint_id, status, utcnow) ==
    IF status \notin {"open", "in_progress", "resolved"}
    THEN [rows |-> rows, response |-> [status |-> 400]]
    ELSE IF ~HasComplaint(rows, complaint_id)
    THEN [rows |-> rows, response |-> [status |-> 404]]
    ELSE [rows |-> [i \in 1..Len(rows) |->
                      IF rows[i].id = complaint_id
                      THEN [rows[i] EXCEPT
                              !.status = status,
                              !.resolved_at = IF status = "resolved" THEN utcnow ELSE @]
                      ELSE rows[i]],
          response |-> [status |-> 200]]

RECURSIVE WithoutComplaint(_, _)
WithoutComplaint(rows, complaint_id) ==
    IF rows = <<>> THEN <<>>
    ELSE (IF Head(rows).id = complaint_id THEN <<>> ELSE <<Head(rows)>>)
         \o WithoutComplaint(Tail(rows), complaint_id)

delete_complaint(rows, complaint_id) ==
    IF ~HasComplaint(rows, complaint_id)
    THEN [rows |-> rows, response |-> [status |-> 404]]
    ELSE [rows |-> WithoutComplaint(rows, complaint_id), response |-> [status |-> 200]]

StoreUnchanged ==
    UNCHANGED <<pc, text, email, gw, category_result, sentiment_result, outcome,
                trace, fn>>

PostComplaint ==
    /\ pc = "idle"
    /\ Len(db) < MaxRows
    /\ LastId(db) < MaxComplaintId
    /\ \E t \in StoreTexts, e \in RequestEmails, o_c \in StoreOutcomes,
          o_s \in StoreOutcomes, utcnow \in now..MaxClock :
          LET r == create_complaint(db, t, e, o_c, o_s, utcnow)
          IN  /\ handler' = "create_complaint"
              /\ db' = r.rows
              /\ response' = r.response
              /\ now' = utcnow
    /\ StoreUnchanged

PatchStatus ==
    /\ pc = "idle"
    /\ \E complaint_id \in 1..MaxComplaintId, status \in StatusInputs,
          utcnow \in now..MaxClock :
          LET r == update_status(db, complaint_id, status, utcnow)
          IN  /\ handler' = "update_status"
              /\ db' = r.rows
              /\ response' = r.response
              /\ now' = utcnow
    /\ StoreUnchanged

DeleteComplaint ==
    /\ pc = "idle"
    /\ \E complaint_id \in 1..MaxComplaintId :
          LET r == delete_complaint(db, complaint_id)
          IN  /\ handler' = "delete_complaint"
              /\ db' = r.rows
              /\ response' = r.response
    /\ UNCHANGED now
    /\ StoreUnchanged

NextStore ==
    \/ PostComplaint
    \/ PatchStatus
    \/ DeleteComplaint

SpecStore == Init /\ [][NextStore]_vars

(***************************************************************************)
(* Properties.                                                             *)
(***************************************************************************)
\* analyze_complaint has returned or raised
AnalyzeDone == pc = "analyzed" \/ (pc = "responded" /\ response.status # 422)

\* C1: for every text that passes validation and every behaviour of the
\* remote service, analyze_complaint returns a result with a category and a
\* sentiment; it never raises.
C1_AnalyzeAlwaysReturnsResult ==
    (AnalyzeDone /\ ~(text = "" \/ Len(strip(text)) < 10 \/ Len(text) < 15))
        => /\ outcome.kind = "result"
           /\ outcome.category = category_result.category
           /\ outcome.sentiment = sentiment_result.sentiment

\* C2 as stated: a TimeoutKind or ConnectivityKind error raised by the
\* gateway during the classification or the sentiment call reaches the
\* caller of analyze_complaint with the same kind.
C2_GatewayErrorPropagatesStep ==
    (/\ pc \in {"classify", "sentiment"}
     /\ gw.status = "raised"
     /\ gw.error \in {"TimeoutKind", "ConnectivityKind"})
        => outcome'.kind = gw.error

C2_GatewayErrorsPropagate == [][C2_GatewayErrorPropagatesStep]_vars

\* C2 amended: an error raised by the gateway during the classification or
\* the sentiment call is absorbed by the wrapper (the analysis goes on with
\* the keyword fallback) and analyze_complaint never raises TimeoutKind or
\* ConnectivityKind; an unexpected failure inside analyze_complaint (the
\* action lookup on a category that cannot be hashed) reaches the caller as
\* GenericAnalysisKind.
C2_AbsorbStep ==
    /\ (pc = "classify" /\ gw.status = "raised")
          => /\ pc' = "sentiment"
             /\ outcome'.kind = "none"
             /\ category_result' = [raised |-> ""] @@ keyword_category[text]
    /\ (pc = "sentiment" /\ gw.status = "raised")
          => /\ pc' = "analyzed"
             /\ outcome'.kind \in {"result", "GenericAnalysisKind"}
             /\ sentiment_result' = [raised |-> ""] @@ keyword_sentiment[text]
    /\ outcome'.kind \notin {"TimeoutKind", "ConnectivityKind"}
    /\ (pc = "sentiment" /\ pc' = "analyzed")
          => (outcome'.kind = "GenericAnalysisKind"
                <=> category_result.category \in ListLabels)

C2_GatewayErrorsAbsorbed == [][C2_AbsorbStep]_vars

C2_Witness ==
    /\ pc = "sentiment"
    /\ gw.status = "raised"
    /\ gw.error = "TimeoutKind"
    /\ gw.requests = max_retries
    /\ category_result.category \in CategorySet

\* C3: analyze_complaint raises ValidationKind exactly when the text is
\* empty, its trimmed length is below 10 or its raw length is below 15; in
\* that case no gateway call was made and no complaint row was stored.
C3_ValidationFailsFast ==
    AnalyzeDone =>
        /\ outcome.kind = "ValidationKind"
              <=> (text = "" \/ Len(strip(text)) < 10 \/ Len(text) < 15)
        /\ outcome.kind = "ValidationKind"
              => /\ gw = GatewayIdle
                 /\ category_result = NoResult
                 /\ sentiment_result = NoResult
                 /\ db = <<>>
                 /\ (pc = "responded" => response.status = 400)

C3_Witness ==
    /\ pc = "responded"
    /\ handler = "create_complaint"
    /\ Len(text) >= 15
    /\ outcome.kind = "ValidationKind"
    /\ response.status = 400
    /\ db = <<>>

\* C4: calculate_priority returns high exactly when the sentiment is
\* negative and the lower-cased text contains an urgent keyword, medium
\* exactly when that does not hold and the sentiment is negative or the text
\* contains an urgent keyword or the category is one of Refund Requests,
\* Billing Issues, Account Issues, and low in every other case.
C4_Urgent(t) ==
    LET lowered == lower(t)
    IN  \E kw \in {"urgent", "asap", "immediately", "emergency", "critical",
                   "refund", "fraud", "lawsuit", "legal", "lawyer", "sue"} :
            Contains(kw, lowered)

C4_PriorityRules ==
    fn.name = "calculate_priority" =>
        LET negative == fn.sentiment = "negative"
            urgent == C4_Urgent(fn.text)
            listed == fn.category \in {"Refund Requests", "Billing Issues",
                                       "Account Issues"}
        IN  /\ fn.result = "high" <=> (negative /\ urgent)
            /\ fn.result = "medium"
                  <=> (~(negative /\ urgent) /\ (negative \/ urgent \/ listed))
            /\ fn.result = "low" <=> ~(negative \/ urgent \/ listed)

C4_Witness ==
    /\ fn.name = "calculate_priority"
    /\ fn.sentiment = "positive"
    /\ fn.category = "Technical Support"
    /\ C4_Urgent(fn.text)
    /\ fn.result = "medium"

\* C5: in every result of analyze_complaint, response_due_at is the clock
\* value read at analysis time plus 2 hours for priority high, 24 hours for
\* medium and 48 hours for low.
C5_DueTime ==
    outcome.kind = "result" =>
        /\ outcome.priority \in {"high", "medium", "low"}
        /\ outcome.priority = "high" => outcome.response_due_at = now + 2 * 3600
        /\ outcome.priority = "medium" => outcome.response_due_at = now + 24 * 3600
        /\ outcome.priority = "low" => outcome.response_due_at = now + 48 * 3600

C5_Witness ==
    /\ outcome.kind = "result"
    /\ outcome.priority = "low"
    /\ now > 0
    /\ outcome.response_due_at = now + 172800

\* C6: the category of every result of classify_complaint and of
\* analyze_complaint is one of the 7 fixed labels, whatever the remote
\* classifier answers.
C6_CategoryInFixedSet ==
    /\ category_result # NoResult => category_result.category \in CategorySet
    /\ outcome.kind = "result" => outcome.category \in CategorySet

\* C7: suggest_action is a two-tier lookup.  A triple of the actions table
\* yields that entry's text with the contact substituted; any other triple
\* yields the generic plan chosen by the priority alone, with the category
\* and the contact substituted, so the sentiment of an absent triple does
\* not matter.
C7_Generic(priority, category, contact) ==
    CASE priority = "high" ->
            " ACTION PLAN:\n1. Call " \o contact \o " within 2 hours"
            \o "\n2. Escalate to department manager"
            \o "\n3. Assign to " \o category \o " department"
            \o "\n4. Offer immediate compensation/solution"
            \o "\n5. Document resolution and follow up"
      [] priority = "medium" ->
            " ACTION PLAN:\n1. Email " \o contact \o " within 12 hours"
            \o "\n2. Assign to senior specialist"
            \o "\n3. Assign to " \o category \o " department"
            \o "\n4. Review compensation options"
            \o "\n5. Document resolution and follow up"
      [] priority = "low" ->
            " ACTION PLAN:\n1. Email " \o contact \o " within 48 hours"
            \o "\n2. Route to standard queue"
            \o "\n3. Assign to " \o category \o " department"
            \o "\n4. Acknowledge and thank customer"
            \o "\n5. Document resolution and follow up"

C7_InTable(category, sentiment, priority) ==
    \E i \in 1..Len(actions) : actions[i].key = <<category, sentiment, priority>>

C7_TwoTierLookup ==
    fn.name = "suggest_action" =>
        /\ fn.result.raised = ""
        /\ \A i \in 1..Len(actions) :
              actions[i].key = <<fn.category, fn.sentiment, fn.priority>>
                 => fn.result.value
                        = actions[i].pre \o fn.customer_email \o actions[i].post
        /\ ~C7_InTable(fn.category, fn.sentiment, fn.priority)
              => /\ fn.result.value
                        = C7_Generic(fn.priority, fn.category, fn.customer_email)
                 /\ \A s \in Sentiments :
                        ~C7_InTable(fn.category, s, fn.priority)
                           => suggest_action(fn.category, s, fn.priority,
                                             fn.customer_email) = fn.result

C7_Witness ==
    /\ fn.name = "suggest_action"
    /\ fn.category = "Product Quality"
    /\ fn.sentiment = "positive"
    /\ fn.priority = "medium"
    /\ fn.customer_email = "raj@example.org"
    /\ ~C7_InTable(fn.category, fn.sentiment, fn.priority)
    /\ ~C7_InTable(fn.category, "neutral", fn.priority)
    /\ fn.result.value = C7_Generic("medium", "Product Quality", "raj@example.org")

\* C8: classify_complaint_with_keywords returns the category whose keyword
\* list has the largest number n of keywords occurring in the lower-cased
\* text, a tie going to the tied category that comes first in the order
\* Billing Issues, Delivery Issues, Product Quality, Refund Requests,
\* Account Issues, Service Quality, Technical Support, with confidence
\* min(0.85 + 0.02 n, 0.99); with no keyword at all it returns
\* (Service Quality, 0.70).
C8_Order == <<"Billing Issues", "Delivery Issues", "Product Quality",
              "Refund Requests", "Account Issues", "Service Quality",
              "Technical Support">>

C8_Counts(t) ==
    LET lowered == lower(t)
    IN  [k \in 1..Len(C8_Order) |->
            LET entry == CHOOSE e \in {category_keywords[j] :
                                         j \in 1..Len(category_keywords)} :
                            e.category = C8_Order[k]
            IN  Cardinality({j \in 1..Len(entry.keywords) :
                                Contains(entry.keywords[j], lowered)})]

C8_KeywordWinner ==
    fn.name = "classify_complaint_with_keywords" =>
        LET n == C8_Counts(fn.text)
        IN  IF \A k \in DOMAIN n : n[k] = 0
            THEN fn.result = [category |-> "Service Quality", confidence |-> 7000]
            ELSE \E k \in DOMAIN n :
                    /\ fn.result.category = C8_Order[k]
                    /\ \A j \in DOMAIN n : n[j] <= n[k]
                    /\ \A j \in 1..(k - 1) : n[j] < n[k]
                    /\ fn.result.confidence
                          = (IF 8500 + 200 * n[k] < 9900 THEN 8500 + 200 * n[k]
                             ELSE 9900)

\* a tie between the winner and a later category
C8_Witness ==
    /\ fn.name = "classify_complaint_with_keywords"
    /\ fn.result.category = "Billing Issues"
    /\ LET n == C8_Counts(fn.text)
       IN  /\ n[1] = n[4]
           /\ n[1] = 1
           /\ \A j \in DOMAIN n : n[j] <= n[1]
    /\ fn.result.confidence = 8700

\* C9: analyze_sentiment_with_keywords applies its rules in order over the
\* counts of matched negative, positive and neutral words: neutral > 0 and
\* negative = 0 gives (neutral, 0.85) even when positive > 0; otherwise
\* negative > positive gives (negative, 0.80); otherwise positive > negative
\* gives (positive, 0.80); otherwise (neutral, 0.75).
C9_Count(words, t) ==
    LET lowered == lower(t)
    IN  Cardinality({i \in 1..Len(words) : Contains(words[i], lowered)})

C9_SentimentRules ==
    fn.name = "analyze_sentiment_with_keywords" =>
        LET neg == C9_Count(negative_words, fn.text)
            pos == C9_Count(positive_words, fn.text)
            neu == C9_Count(neutral_words, fn.text)
            first == neu > 0 /\ neg = 0
        IN  /\ first => fn.result = [sentiment |-> "neutral", confidence |-> 8500]
            /\ (~first /\ neg > pos)
                  => fn.result = [sentiment |-> "negative", confidence |-> 8000]
            /\ (~first /\ pos > neg)
                  => fn.result = [sentiment |-> "positive", confidence |-> 8000]
            /\ (~first /\ pos = neg)
                  => fn.result = [sentiment |-> "neutral", confidence |-> 7500]

\* neutral and positive words, no negative word
C9_Witness ==
    /\ fn.name = "analyze_sentiment_with_keywords"
    /\ C9_Count(neutral_words, fn.text) > 0
    /\ C9_Count(positive_words, fn.text) > 0
    /\ C9_Count(negative_words, fn.text) = 0
    /\ fn.result = [sentiment |-> "neutral", confidence |-> 8500]

\* C10: one call of call_huggingface_api issues at most max_retries (3)
\* requests and then is over; when every attempt is answered with HTTP 503
\* it issues exactly max_retries requests and returns None, not an error.
C10_All503 ==
    \A i \in 1..Len(trace) : trace[i].kind = "status" /\ trace[i].status = 503

C10_BoundedRetries ==
    pc = "gateway" =>
        /\ gw.requests = Len(trace)
        /\ gw.requests <= 3
        /\ gw.requests = 3 => gw.status \in {"returned", "raised"}
        /\ C10_All503 =>
              /\ gw.status = "running" <=> gw.requests < 3
              /\ gw.status # "running" => (gw.status = "returned" /\ gw.value = None)

C10_Witness ==
    /\ pc = "gateway"
    /\ C10_All503
    /\ gw.requests = 3
    /\ gw.status = "returned"
    /\ gw.value = None

\* C11: a timeout on an attempt that is not the last makes the gateway sleep
\* and go on to another request without raising; a timeout on attempt number
\* max_retries raises TimeoutKind; so with a timeout on every attempt exactly
\* max_retries requests are made before TimeoutKind.
C11_AllTimeout ==
    \A i \in 1..Len(trace) : trace[i].kind = "Timeout"

C11_TimeoutRetriedThenRaised ==
    (pc = "gateway" /\ trace # <<>> /\ trace[Len(trace)].kind = "Timeout") =>
        /\ gw.requests = Len(trace)
        /\ IF Len(trace) < max_retries
           THEN /\ gw.status = "running"
                /\ gw.error = ""
                /\ Len(gw.slept) = Len(trace)
                /\ ENABLED (\E o \in AttemptOutcomes : GatewayRequest(o))
           ELSE /\ gw.status = "raised"
                /\ gw.error = "TimeoutKind"
        /\ C11_AllTimeout => (gw.status = "raised" <=> gw.requests = max_retries)

C11_Witness ==
    /\ pc = "gateway"
    /\ Len(trace) = max_retries
    /\ C11_AllTimeout
    /\ gw.status = "raised"
    /\ gw.error = "TimeoutKind"
    /\ gw.requests = max_retries
    /\ gw.slept = <<1, 2>>

\* the outcome of the latest requests.post of the gateway call
C12_Last == trace[Len(trace)]

\* the gateway call is over and makes no further request
C12_Over(status) ==
    /\ gw.status = status
    /\ ~ENABLED (\E o \in AttemptOutcomes : GatewayRequest(o))

\* a further request is made only after a 503 or a timeout
C12_RetryOnlyAfter503OrTimeout ==
    gw.status = "running" =>
        \/ C12_Last.kind = "Timeout"
        \/ C12_Last.kind = "status" /\ C12_Last.status = 503

\* what C12 says of the outcomes other than 200
C12_NoRetryOther ==
    /\ (C12_Last.kind = "status" /\ C12_Last.status \notin {200, 503})
          => (C12_Over("returned") /\ gw.value = None)
    /\ C12_Last.kind = "ConnectionError"
          => (C12_Over("raised") /\ gw.error = "ConnectivityKind")
    /\ C12_Last.kind = "Exception"
          => (C12_Over("raised") /\ gw.error = "GenericServiceKind")

\* C12 as stated: a further request is made only after a 503 or a timeout;
\* after a 200 the parsed response is returned, after another status None,
\* after a connection failure ConnectivityKind is raised, after another
\* exception GenericServiceKind, and no further request is made.
C12_NoRetryAsStated ==
    (pc = "gateway" /\ trace # <<>>) =>
        /\ C12_RetryOnlyAfter503OrTimeout
        /\ C12_NoRetryOther
        /\ (C12_Last.kind = "status" /\ C12_Last.status = 200)
              => (C12_Over("returned") /\ gw.value = C12_Last.body)

\* C12 amended: as stated, except that after a 200 the response is returned
\* only when its body parses as JSON; when response.json() raises, the call
\* raises GenericServiceKind (and makes no further request either).
C12_NoRetry ==
    (pc = "gateway" /\ trace # <<>>) =>
        /\ C12_RetryOnlyAfter503OrTimeout
        /\ C12_NoRetryOther
        /\ (C12_Last.kind = "status" /\ C12_Last.status = 200)
              => IF C12_Last.body.shape = "not_json"
                 THEN C12_Over("raised") /\ gw.error = "GenericServiceKind"
                 ELSE C12_Over("returned") /\ gw.value = C12_Last.body

C12_Witness ==
    /\ pc = "gateway"
    /\ Len(trace) = 2
    /\ trace[1].kind = "status" /\ trace[1].status = 503
    /\ trace[2].kind = "status" /\ trace[2].status = 200
    /\ trace[2].body.shape = "not_json"
    /\ gw.status = "raised"
    /\ gw.error = "GenericServiceKind"
    /\ gw.requests = 2

\* C15: the gateway sleeps only between attempts: the sleep after attempt k
\* (from 0) lasts 2^k seconds and another request follows it, so the call
\* never sleeps after its final attempt.
C15_SleepsOnlyBetweenAttempts ==
    pc = "gateway" =>
        /\ \A k \in 1..Len(gw.slept) : gw.slept[k] = Pow2(k - 1)
        /\ gw.status = "running" => Len(gw.slept) = gw.requests
        /\ gw.status \in {"returned", "raised"} => Len(gw.slept) < gw.requests

\* the finished gateway call returned a well-formed classification whose
\* top score is above 0.5
C14_RemoteCategory ==
    /\ gw.status = "returned"
    /\ gw.value.shape = "zero_shot"
    /\ gw.value.labels # <<>>
    /\ gw.value.scores # <<>>
    /\ gw.value.scores[1] > 5000

\* the highest-scoring prediction (the first of them when several are equal)
C14_Top(predictions) ==
    LET i == CHOOSE i \in 1..Len(predictions) :
                /\ \A j \in 1..Len(predictions) : predictions[j].score <= predictions[i].score
                /\ \A j \in 1..(i - 1) : predictions[j].score < predictions[i].score
    IN  predictions[i]

\* the finished gateway call returned well-formed predictions whose highest
\* score is above 0.6
C14_RemoteSentiment ==
    /\ gw.status = "returned"
    /\ gw.value.shape = "predictions"
    /\ gw.value.predictions # <<>>
    /\ C14_Top(gw.value.predictions).score > 6000
    /\ C14_Top(gw.value.predictions).label \notin ListLabels

C14_Canonical(label) ==
    IF lower(label) \in Sentiments THEN lower(label) ELSE "neutral"

C14_Step ==
    /\ (pc = "classify" /\ pc' # "classify") =>
          /\ category_result'.raised = ""
          /\ IF C14_RemoteCategory
             THEN /\ category_result'.category = gw.value.labels[1]
                  /\ category_result'.confidence = round3(gw.value.scores[1])
             ELSE /\ category_result'.category = keyword_category[text].category
                  /\ category_result'.confidence = keyword_category[text].confidence
    /\ (pc = "sentiment" /\ pc' # "sentiment") =>
          /\ sentiment_result'.raised = ""
          /\ IF C14_RemoteSentiment
             THEN /\ sentiment_result'.sentiment =
                        C14_Canonical(C14_Top(gw.value.predictions).label)
                  /\ sentiment_result'.confidence =
                        round3(C14_Top(gw.value.predictions).score)
             ELSE /\ sentiment_result'.sentiment = keyword_sentiment[text].sentiment
                  /\ sentiment_result'.confidence = keyword_sentiment[text].confidence

\* C14: classify_complaint returns the remote top label exactly when the
\* gateway returned a result whose top score is above 0.5, and
\* analyze_sentiment the mapped remote label (unknown labels as neutral)
\* exactly when the highest score is above 0.6; in every other case the
\* result is that of the keyword function on the same text.
C14_StrictThresholds == [][C14_Step]_vars

C14_Witness ==
    /\ pc = "analyzed"
    /\ outcome.kind = "result"
    /\ category_result.category = "Account Issues"
    /\ category_result.confidence = 5000
    /\ sentiment_result = [raised |-> ""] @@ keyword_sentiment[text]
    /\ keyword_category[text].category # "Account Issues"

C13_Step ==
    /\ (pc \in {"classify", "sentiment"} /\ pc' = pc /\ gw' # gw) =>
          \* a step within a call is one more request of a bounded number
          /\ gw'.requests = gw.requests + 1
          /\ gw'.requests <= max_retries
    /\ (pc = "classify" /\ pc' # "classify") =>
          \* whatever the classification call ended with, the sentiment call starts
          /\ pc' = "sentiment"
          /\ gw' = GatewayCall("sentiment")
          /\ gw'.status = "running"
          /\ category_result'.raised = ""
          /\ category_result' = classify_complaint(text, gw)
          /\ sentiment_result' = sentiment_result
    /\ (pc = "sentiment" /\ pc' # "sentiment") =>
          /\ gw.call = "sentiment"
          /\ sentiment_result'.raised = ""
          /\ sentiment_result'.sentiment \in Sentiments
          /\ sentiment_result' = analyze_sentiment(text, gw)
          /\ category_result' = category_result
          /\ outcome'.kind = "result" =>
                /\ outcome'.sentiment = sentiment_result'.sentiment
                /\ outcome'.category = category_result.category

\* the analysis is never stuck in a call: a running gateway call can make
\* its next request, a finished classification call lets classify_complaint
\* return into the sentiment call, and no analysis of a valid text ends
\* without the sentiment step having produced its result
C13_NotStuck ==
    /\ pc \in {"classify", "sentiment"} =>
          /\ gw.requests <= max_retries
          /\ gw.status \in {"running", "returned", "raised"}
          /\ gw.status = "running" => ENABLED (\E o \in AttemptOutcomes : Request(o))
          /\ (pc = "classify" /\ gw.status # "running") => ENABLED ClassifyReturn
    /\ (pc \in {"analyzed", "responded"} /\ outcome.kind # "ValidationKind"
            /\ response.status # 422) =>
          /\ category_result # NoResult
          /\ sentiment_result # NoResult
          /\ sentiment_result.sentiment \in Sentiments

\* C13: within one analyze_complaint of a valid text, whatever the
\* classification call ends with (a timeout on every attempt included), the
\* sentiment call is made and sentiment detection completes (every call makes
\* a bounded number of requests and is never stuck); the sentiment is
\* a function of the text and of the sentiment call alone, the category a
\* function of the text and of the classification call alone.
C13_NeitherBlocksTheOther == [][C13_Step]_vars /\ []C13_NotStuck

C13_Witness ==
    /\ pc = "analyzed"
    /\ outcome.kind = "result"
    /\ category_result = [raised |-> ""] @@ keyword_category[text]
    /\ sentiment_result.sentiment = "positive"
    /\ sentiment_result.confidence = 9000
    /\ keyword_sentiment[text].sentiment # "positive"
    /\ outcome.sentiment = "positive"
    /\ outcome.category = keyword_category[text].category

\* the table entries of suggest_action that C16 names
C16_DeadKeys ==
    {<<"Billing Issues", "neutral", "low">>,
     <<"Billing Issues", "positive", "low">>,
     <<"Refund Requests", "positive", "low">>}

C17_RowsConsistent ==
    \A i \in 1..Len(db) :
        /\ db[i].status \in {"open", "in_progress", "resolved"}
        /\ db[i].resolved_at # -1 <=> db[i].status = "resolved"

\* an update_status that is answered 400 or 404 changes no stored complaint
C17_RejectedStep ==
    (handler' = "update_status" /\ response'.status \in {400, 404}) => db' = db

\* C17: after any sequence of create_complaint, update_status and
\* delete_complaint, every stored complaint has a status among open,
\* in_progress and resolved and has resolved_at set exactly when its status
\* is resolved; an update_status with another status or an unknown id is
\* rejected and changes nothing stored.
C17_StatusAndResolvedAt == []C17_RowsConsistent /\ [][C17_RejectedStep]_vars

=============================================================================
